---- MODULE Spec2Model ----
(***************************************************************************)
(* The ChatKit session relay: process start-up (main), the CORS gate       *)
(* (withCORS), the session handlers of the three revisions of the server   *)
(* and the upstream session-creation call, with the deadline and the       *)
(* cancellation of its context, the passing of time and the graceful       *)
(* shutdown of the server.                                                 *)
(*                                                                         *)
(* Texts (response bodies, log lines, environment values, secrets) are     *)
(* sequences of atoms: an atom is one character, or a fixed message the    *)
(* program writes in one piece.                                            *)
(***************************************************************************)
EXTENDS Integers, Sequences, FiniteSets, TLC

VARIABLES
    variant,   \* which revision of the server runs: "inline", "client" or "fixed"
    env,       \* the process environment, read-only
    load,      \* the population of clients: "any" (one connection) or "pair"
    pc,        \* main's position: "boot", "serving", "fatal", "draining", "stopped"
    cfg,       \* the handler's configuration, built by main
    conn,      \* per connection: the request in progress and its response
    drain      \* seconds the call of httpServer.Shutdown has lasted

vars == <<variant, env, load, pc, cfg, conn, drain>>

----------------------------------------------------------------------------
(* Bounds of the model. *)

MaxInFlight == 2      \* connections served concurrently under SpecConc
MaxSecretLen == 2     \* length of the generated client secrets
MaxClock == 20        \* seconds a request is followed for after its headers were read

----------------------------------------------------------------------------
(* Program constants. *)

defaultExpiresAfterSecs == 1200
defaultRateLimitPerMin == 10
inlineDefaultExpiresAfter == 1200
inlineDefaultRateLimit == 10
StatusOK == 200
StatusNoContent == 204
StatusBadRequest == 400
StatusForbidden == 403
StatusMethodNotAllowed == 405
StatusInternalServerError == 500
openaiRequestTimeout == 15
serverShutdownTimeout == 5
writeTimeout == 15
TickSeconds == 5
contentTypeJSON == "application/json"
contentTypeText == "text/plain; charset=utf-8"

Range(s) == {s[i] : i \in DOMAIN s}

----------------------------------------------------------------------------
(* strconv.ParseInt(v, 10, 64) on a text of characters. *)

Digits == <<"0", "1", "2", "3", "4", "5", "6", "7", "8", "9">>

DigitValue(c) == (CHOOSE i \in DOMAIN Digits : Digits[i] = c) - 1

RECURSIVE digitsValue(_)
digitsValue(s) ==
    IF s = <<>> THEN 0
    ELSE digitsValue(SubSeq(s, 1, Len(s) - 1)) * 10 + DigitValue(s[Len(s)])

ParseInt(s) ==
    LET signed == Len(s) > 0 /\ s[1] \in {"+", "-"}
        body == IF signed THEN Tail(s) ELSE s
        bad == body = <<>> \/ \E i \in DOMAIN body : body[i] \notin Range(Digits)
    IN IF bad THEN [ok |-> FALSE, n |-> 0]
       ELSE [ok |-> TRUE,
             n |-> IF s[1] = "-" THEN 0 - digitsValue(body) ELSE digitsValue(body)]

----------------------------------------------------------------------------
(* encoding/json on the response: Encoder.Encode of map[string]string      *)
(* {"client_secret": s}, and the decoding a client applies to it.          *)

Quote == "\""
Backslash == "\\"

EscapeChar(c) ==
    IF c = Quote THEN <<Backslash, Quote>>
    ELSE IF c = Backslash THEN <<Backslash, Backslash>>
    ELSE IF c = "<" THEN <<Backslash, "u003c">>
    ELSE <<c>>

RECURSIVE EscapeString(_)
EscapeString(s) ==
    IF s = <<>> THEN <<>> ELSE EscapeChar(Head(s)) \o EscapeString(Tail(s))

\* The compact JSON text of the object {"client_secret": s}.
CompactObject(s) ==
    <<"{", Quote, "client_secret", Quote, ":", Quote>> \o EscapeString(s) \o <<Quote, "}">>

\* Faulty variant: the secret is pasted between the quotes without escaping
EncodeUnescaped(s) ==
    <<"{", Quote, "client_secret", Quote, ":", Quote>> \o s \o <<Quote, "}", "\n">>

\* Encoder.Encode writes the value followed by a newline.
Encode(s) == CompactObject(s) \o <<"\n">>

\* The string literal starting after the opening quote at position i:
\* its value and the position after its closing quote (0: unterminated).
RECURSIVE readString(_, _, _)
readString(b, i, acc) ==
    IF i > Len(b) THEN [val |-> acc, next |-> 0]
    ELSE IF b[i] = Quote THEN [val |-> acc, next |-> i + 1]
    ELSE IF b[i] = Backslash
         THEN IF i + 1 > Len(b) THEN [val |-> acc, next |-> 0]
              ELSE IF b[i + 1] = "u003c" THEN readString(b, i + 2, Append(acc, "<"))
              ELSE IF b[i + 1] \in {Quote, Backslash}
                   THEN readString(b, i + 2, Append(acc, b[i + 1]))
              ELSE [val |-> acc, next |-> 0]
    ELSE readString(b, i + 1, Append(acc, b[i]))

\* json.NewDecoder(body).Decode(&map[string]string): the members of a
\* one-member object of strings; white space may follow the value.
DecodeObject(b) ==
    LET bad == [ok |-> FALSE, key |-> <<>>, val |-> <<>>]
    IN IF Len(b) < 2 \/ b[1] # "{" \/ b[2] # Quote THEN bad
       ELSE LET k == readString(b, 3, <<>>)
            IN IF k.next = 0 \/ k.next + 1 > Len(b)
                  \/ b[k.next] # ":" \/ b[k.next + 1] # Quote THEN bad
               ELSE LET v == readString(b, k.next + 2, <<>>)
                    IN IF v.next = 0 \/ v.next > Len(b) \/ b[v.next] # "}" THEN bad
                       ELSE IF \E j \in (v.next + 1)..Len(b) : b[j] \notin {"\n", " "}
                            THEN bad
                       ELSE [ok |-> TRUE, key |-> k.val, val |-> v.val]

----------------------------------------------------------------------------
(* Requests.  A body is the bytes of the request body, described by: ok,   *)
(* whether it starts with a well-formed JSON object; m, the members of     *)
(* that object; end, the offset of the object's closing brace; len, the    *)
(* number of bytes of the whole body.                                      *)

maxRequestBodyBytes == 4096

Keys == {"user", "workflow_id", "expires_after_seconds", "rate_limit_per_minute", "foo"}

Absent == [t |-> "absent", s |-> "", n |-> 0]
Null == [t |-> "null", s |-> "", n |-> 0]
Str(x) == [t |-> "str", s |-> x, n |-> 0]
Num(x) == [t |-> "num", s |-> "", n |-> x]

Object(u, w, e, r, f) ==
    [ok |-> TRUE,
     m |-> [k \in Keys |->
              CASE k = "user" -> u
                [] k = "workflow_id" -> w
                [] k = "expires_after_seconds" -> e
                [] k = "rate_limit_per_minute" -> r
                [] OTHER -> f],
     end |-> 64, len |-> 64]

Malformed == [Object(Absent, Absent, Absent, Absent, Absent) EXCEPT !.ok = FALSE, !.end = 0]

\* Bodies around the size limit: the object ends at `end`, the body at `len`.
Sized(b, end, len) == [b EXCEPT !.end = end, !.len = len]

Present(body) == {k \in Keys : body.m[k].t # "absent"}

\* The fields of sessionRequest in each revision, and their Go types.
Fields(v) ==
    IF v = "fixed" THEN {"user"}
    ELSE {"user", "workflow_id", "expires_after_seconds", "rate_limit_per_minute"}

FieldType(k) == IF k \in {"user", "workflow_id"} THEN "str" ELSE "num"

\* http.MaxBytesReader + json.Decoder.Decode into sessionRequest.  The decoder
\* stops reading at the end of the first JSON value, so the byte limit is hit
\* only when that value does not end within the first maxRequestBodyBytes.
\* A null member leaves its field at the zero value; `strict` is
\* DisallowUnknownFields, `limited` the presence of the MaxBytesReader.
\* Faulty variant: unknown members are skipped although DisallowUnknownFields is set
decodeErrSkipUnknown(body, fields, strict, limited) ==
    \/ ~body.ok
    \/ limited /\ body.end > maxRequestBodyBytes
    \/ \E k \in Present(body) \cap fields : body.m[k].t \notin {"null", FieldType(k)}

\* Whether Decode returns an error.
decodeErr(body, fields, strict, limited) ==
    \/ ~body.ok
    \/ limited /\ body.end > maxRequestBodyBytes
    \/ strict /\ Present(body) \ fields # {}
    \/ \E k \in Present(body) \cap fields : body.m[k].t \notin {"null", FieldType(k)}

Decode(body, fields, strict, limited) ==
    LET err == decodeErr(body, fields, strict, limited)
        str(k) == IF k \in fields /\ body.m[k].t = "str" THEN body.m[k].s ELSE ""
        num(k) == IF k \in fields /\ body.m[k].t = "num" THEN body.m[k].n ELSE 0
    IN [err |-> err,
        User |-> str("user"),
        WorkflowID |-> str("workflow_id"),
        ExpiresAfterSeconds |-> num("expires_after_seconds"),
        RateLimitPerMinute |-> num("rate_limit_per_minute")]

AppOrigin == "https://app.example.com"
AppOriginUpper == "https://APP.example.com"
EvilOrigin == "https://evil.example.com"

Methods == {"POST", "GET", "OPTIONS"}
Origins == {"", AppOrigin, AppOriginUpper, EvilOrigin}

Bodies ==
    {Object(u, w, e, r, f) :
        u \in {Absent, Str(""), Str("u")},
        w \in {Absent, Str(""), Str("w")},
        e \in {Absent, Num(-1), Num(0), Num(30)},
        r \in {Absent, Num(-1), Num(0), Num(5)},
        f \in {Absent, Num(1)}}
    \cup {Malformed,
          Object(Num(1), Absent, Absent, Absent, Absent),
          Object(Null, Str("w"), Absent, Absent, Absent),
          Object(Str("u"), Str("w"), Str("30"), Absent, Absent),
          Sized(Object(Str("u"), Str("w"), Absent, Absent, Absent), 64, 5000),
          Sized(Object(Str("u"), Str("w"), Absent, Absent, Absent), 4096, 4097),
          Sized(Object(Str("u"), Str("w"), Absent, Absent, Absent), 5000, 5000),
          Sized(Object(Str("u"), Absent, Absent, Absent, Absent), 64, 5000),
          Sized(Object(Str("u"), Absent, Absent, Absent, Absent), 4097, 4097)}

PairBodies ==
    {Object(Str("u"), Absent, Absent, Absent, Absent),
     Object(Str("v"), Absent, Absent, Absent, Absent),
     Object(Str("u"), Str("w"), Num(30), Num(5), Absent)}

Requests == [method : Methods, origin : Origins, body : Bodies]
PairRequests ==
    [method : {"POST"}, origin : {AppOrigin}, body : PairBodies]
        \cup [method : {"POST", "GET"}, origin : {AppOrigin, EvilOrigin},
              body : {Object(Str("u"), Absent, Absent, Absent, Absent)}]

\* The requests the clients of this run may send.
Offered == IF load = "any" THEN Requests ELSE PairRequests

----------------------------------------------------------------------------
(* The environment and the per-connection record. *)

Variants == {"inline", "client", "fixed"}

UnsetEnv ==
    [OPENAI_API_KEY |-> "", CHATKIT_WORKFLOW_ID |-> "",
     CHATKIT_EXPIRES_AFTER_SECONDS |-> <<>>, CHATKIT_RATE_LIMIT_PER_MINUTE |-> <<>>,
     ALLOWED_ORIGINS |-> <<>>]

Envs(v) ==
    IF v = "fixed"
    THEN [OPENAI_API_KEY : {"", "sk"},
          CHATKIT_WORKFLOW_ID : {"", "wf_env"},
          CHATKIT_EXPIRES_AFTER_SECONDS : {<<>>, <<"x">>, <<"-", "1">>, <<"0">>, <<"3", "0">>},
          CHATKIT_RATE_LIMIT_PER_MINUTE : {<<"-", "5">>, <<"0">>, <<"1", "0">>},
          ALLOWED_ORIGINS : {<<>>, <<"*">>, <<AppOrigin>>}]
    ELSE {[UnsetEnv EXCEPT !.OPENAI_API_KEY = k] : k \in {"", "sk"}}

\* The environments of the runs with several connections: in the server-fixed
\* revision one origin list, one expiry and one rate limit.
PairEnvs(v) ==
    {e \in Envs(v) :
        v = "fixed" => /\ e.ALLOWED_ORIGINS = <<AppOrigin>>
                       /\ e.CHATKIT_EXPIRES_AFTER_SECONDS \in {<<>>, <<"3", "0">>}
                       /\ e.CHATKIT_RATE_LIMIT_PER_MINUTE \in {<<"-", "5">>, <<"0">>}}

NoPolicy == [enabled |-> FALSE, wildcard |-> FALSE, allowed |-> {}]

NoCfg == [workflowID |-> "", expiresAfterSeconds |-> 0, rateLimitPerMinute |-> 0,
          cors |-> NoPolicy]

NoRequest == [method |-> "", origin |-> "", body |-> Malformed]

NoResponse ==
    [status |-> 0, contentType |-> "", allowOrigin |-> "", vary |-> {},
     allowMethods |-> "", allowHeaders |-> "", maxAge |-> "", body |-> <<>>,
     writes |-> 0]

NoParams == [User |-> "", WorkflowID |-> "", Seconds |-> 0, Anchor |-> "",
             MaxRequestsPer1Minute |-> 0]

NoResult == [kind |-> "none", secret |-> <<>>, err |-> ""]

\* No context has been made for the upstream call. kind is "request" for
\* r.Context() itself and "timeout" for a context made by context.WithTimeout;
\* done is the context's error once it is done ("" before).
NoContext ==
    [kind |-> "none", parent |-> "", deadline |-> 0, done |-> "", released |-> FALSE]

IdleConn ==
    [st |-> "idle", req |-> NoRequest, resp |-> NoResponse, handlerCalls |-> 0,
     gatewayCalls |-> 0, params |-> NoParams, result |-> NoResult, log |-> <<>>,
     clock |-> 0, reqCtx |-> "none", ctx |-> NoContext]

----------------------------------------------------------------------------
(* What the upstream session API may answer. *)

SecretChars == {"s", Quote, "<"}

SecretLit == <<"s", "e", "c", "r", "e", "t">>

Secrets ==
    {SecretLit} \cup UNION {[1..n -> SecretChars] : n \in 0..MaxSecretLen}

UpstreamErrors == {"401 Unauthorized", "context deadline exceeded"}

\* The answers of the upstream API in this run.
OfferedSecrets == IF load = "any" THEN Secrets ELSE {SecretLit}
OfferedErrors == IF load = "any" THEN UpstreamErrors ELSE {"401 Unauthorized"}

----------------------------------------------------------------------------
(* Writing responses. *)

\* http.Error(w, msg, code)
Error(c, msg, code) ==
    [c EXCEPT !.st = "done",
              !.resp.status = code,
              !.resp.writes = @ + 1,
              !.resp.contentType = contentTypeText,
              !.resp.body = <<msg, "\n">>]

\* Faulty variant: the status line is written twice
WriteHeaderTwice(c, code) ==
    [c EXCEPT !.st = "done", !.resp.status = code, !.resp.writes = @ + 2]

\* w.WriteHeader(code) with nothing written after it
WriteHeader(c, code) ==
    [c EXCEPT !.st = "done", !.resp.status = code, !.resp.writes = @ + 1]

\* h.createSession(ctx, params) is entered: the handler waits for its answer.
createSession(c, params) ==
    [c EXCEPT !.st = "calling", !.gatewayCalls = @ + 1, !.params = params]

CreatedAt == "created_at"

\* The error of a context made from the request's context, at its making.
parentErr(c) == IF c.reqCtx = "cancelled" THEN "context canceled" ELSE ""

\* r.Context() itself is handed to the upstream call.
requestContext(c) ==
    [c EXCEPT !.ctx = [kind |-> "request", parent |-> "", deadline |-> 0,
                       done |-> parentErr(c), released |-> FALSE]]

\* Faulty variant: the context is made from context.Background()
withTimeoutBackground(c, d) ==
    [c EXCEPT !.ctx = [kind |-> "timeout", parent |-> "background",
                       deadline |-> c.clock + d, done |-> "", released |-> FALSE]]

\* ctx, cancel := context.WithTimeout(r.Context(), d)
withTimeout(c, d) ==
    [c EXCEPT !.ctx = [kind |-> "timeout", parent |-> "request",
                       deadline |-> c.clock + d, done |-> parentErr(c),
                       released |-> FALSE]]

\* defer cancel(): runs when the handler returns after the context was made.
cancel(c) ==
    IF c.ctx.kind = "timeout" THEN [c EXCEPT !.ctx.released = TRUE] ELSE c

\* The request's context is cancelled, and with it every context made from it.
cancelRequest(c) ==
    [c EXCEPT !.reqCtx = "cancelled",
              !.ctx.done = IF @ = "" /\ (c.ctx.kind = "request" \/ c.ctx.parent = "request")
                           THEN "context canceled" ELSE @]

----------------------------------------------------------------------------
(* The session handlers. *)

\* Faulty variant: a zero is passed on as it is
keepZero(v, def) == v

\* expiresAfter := payload.X; if expiresAfter == 0 { expiresAfter = default }
resolveDefault(v, def) == IF v = 0 THEN def ELSE v

\* Faulty variant: the range check of rate_limit_per_minute is missing
validationErrorNoRateCheck(payload) ==
    IF payload.User = "" \/ payload.WorkflowID = ""
    THEN "user and workflow_id are required"
    ELSE IF payload.ExpiresAfterSeconds < 0
    THEN "expires_after_seconds must be non-negative"
    ELSE ""

\* The checks of the decoded payload in the revisions with client-supplied
\* parameters: the message of the first one that fails, "" when all pass.
validationError(payload) ==
    IF payload.User = "" \/ payload.WorkflowID = ""
    THEN "user and workflow_id are required"
    ELSE IF payload.ExpiresAfterSeconds < 0
    THEN "expires_after_seconds must be non-negative"
    ELSE IF payload.RateLimitPerMinute < 0
    THEN "rate_limit_per_minute must be non-negative"
    ELSE ""

\* The first revision: the handler registered inline in main.
inlineHandler(c0) ==
    LET c == [c0 EXCEPT !.handlerCalls = @ + 1]
        payload == Decode(c.req.body, Fields("inline"), FALSE, FALSE)
        expiresAfter == resolveDefault(payload.ExpiresAfterSeconds, inlineDefaultExpiresAfter)
        rateLimit == resolveDefault(payload.RateLimitPerMinute, inlineDefaultRateLimit)
    IN IF c.req.method # "POST" THEN WriteHeader(c, StatusMethodNotAllowed)
       ELSE IF payload.err THEN Error(c, "invalid JSON", StatusBadRequest)
       ELSE IF validationError(payload) # ""
            THEN Error(c, validationError(payload), StatusBadRequest)
       ELSE IF env.OPENAI_API_KEY = ""
            THEN Error(c, "missing OPENAI_API_KEY", StatusInternalServerError)
       ELSE createSession(requestContext(c),
                          [User |-> payload.User,
                           WorkflowID |-> payload.WorkflowID,
                           Seconds |-> expiresAfter,
                           Anchor |-> CreatedAt,
                           MaxRequestsPer1Minute |-> rateLimit])

\* The second revision: server.handleSession with client-supplied parameters.
serverHandleSession(c0) ==
    LET c == [c0 EXCEPT !.handlerCalls = @ + 1]
        payload == Decode(c.req.body, Fields("client"), TRUE, TRUE)
        expiresAfter == resolveDefault(payload.ExpiresAfterSeconds, defaultExpiresAfterSecs)
        rateLimit == resolveDefault(payload.RateLimitPerMinute, defaultRateLimitPerMin)
    IN IF c.req.method # "POST" THEN WriteHeader(c, StatusMethodNotAllowed)
       ELSE IF payload.err THEN Error(c, "invalid JSON", StatusBadRequest)
       ELSE IF validationError(payload) # ""
            THEN Error(c, validationError(payload), StatusBadRequest)
       ELSE createSession(withTimeout(c, openaiRequestTimeout),
                          [User |-> payload.User,
                           WorkflowID |-> payload.WorkflowID,
                           Seconds |-> expiresAfter,
                           Anchor |-> CreatedAt,
                           MaxRequestsPer1Minute |-> rateLimit])

\* Faulty variant: the check of user is missing
handleSessionNoUserCheck(h, c0) ==
    LET c == [c0 EXCEPT !.handlerCalls = @ + 1]
        payload == Decode(c.req.body, Fields("fixed"), TRUE, TRUE)
    IN IF c.req.method # "POST" THEN WriteHeader(c, StatusMethodNotAllowed)
       ELSE IF payload.err THEN Error(c, "invalid JSON", StatusBadRequest)
       ELSE createSession(withTimeout(c, openaiRequestTimeout),
                          [User |-> payload.User,
                           WorkflowID |-> h.workflowID,
                           Seconds |-> h.expiresAfterSeconds,
                           Anchor |-> CreatedAt,
                           MaxRequestsPer1Minute |-> h.rateLimitPerMinute])

\* Faulty variant: the body is decoded before the method is looked at
handleSessionDecodeFirst(h, c0) ==
    LET c == [c0 EXCEPT !.handlerCalls = @ + 1]
        payload == Decode(c.req.body, Fields("fixed"), TRUE, TRUE)
    IN IF payload.err THEN Error(c, "invalid JSON", StatusBadRequest)
       ELSE IF c.req.method # "POST" THEN WriteHeader(c, StatusMethodNotAllowed)
       ELSE IF payload.User = "" THEN Error(c, "user is required", StatusBadRequest)
       ELSE createSession(withTimeout(c, openaiRequestTimeout),
                          [User |-> payload.User,
                           WorkflowID |-> h.workflowID,
                           Seconds |-> h.expiresAfterSeconds,
                           Anchor |-> CreatedAt,
                           MaxRequestsPer1Minute |-> h.rateLimitPerMinute])

\* The third revision: sessionHandler.handleSession with server-fixed parameters.
handleSession(h, c0) ==
    LET c == [c0 EXCEPT !.handlerCalls = @ + 1]
        payload == Decode(c.req.body, Fields("fixed"), TRUE, TRUE)
    IN IF c.req.method # "POST" THEN WriteHeader(c, StatusMethodNotAllowed)
       ELSE IF payload.err THEN Error(c, "invalid JSON", StatusBadRequest)
       ELSE IF payload.User = "" THEN Error(c, "user is required", StatusBadRequest)
       ELSE createSession(withTimeout(c, openaiRequestTimeout),
                          [User |-> payload.User,
                           WorkflowID |-> h.workflowID,
                           Seconds |-> h.expiresAfterSeconds,
                           Anchor |-> CreatedAt,
                           MaxRequestsPer1Minute |-> h.rateLimitPerMinute])

\* Faulty variant: the upstream error's text is sent to the client
sessionFailedEcho(c, err) ==
    Error([cancel(c) EXCEPT !.result = [kind |-> "err", secret |-> <<>>, err |-> err],
                    !.log = Append(@, <<"failed to create session: ", err>>)],
          err, StatusInternalServerError)

\* Faulty variant: a failed call is tried once more
sessionFailedRetry(c, err) ==
    IF c.gatewayCalls < 2 THEN createSession(c, c.params)
    ELSE Error([cancel(c) EXCEPT !.result = [kind |-> "err", secret |-> <<>>, err |-> err],
                         !.log = Append(@, <<"failed to create session: ", err>>)],
               "failed to create session", StatusInternalServerError)

\* The handler's code after createSession has returned an error.
sessionFailed(c, err) ==
    Error([cancel(c) EXCEPT !.result = [kind |-> "err", secret |-> <<>>, err |-> err],
                    !.log = Append(@, <<"failed to create session: ", err>>)],
          "failed to create session", StatusInternalServerError)

\* The handler's code after createSession has returned a session.
sessionCreated(c, secret) ==
    [cancel(c) EXCEPT !.result = [kind |-> "ok", secret |-> secret, err |-> ""],
                      !.st = "done",
                      !.resp.contentType = contentTypeJSON,
                      !.resp.status = StatusOK,
                      !.resp.writes = @ + 1,
                      !.resp.body = Encode(secret)]

\* mux.HandleFunc("/api/chatkit/session", ...): the handler each revision mounts.
newRouter(c) ==
    CASE variant = "inline" -> inlineHandler(c)
      [] variant = "client" -> serverHandleSession(c)
      [] OTHER -> handleSession(cfg, c)

----------------------------------------------------------------------------
(* The CORS gate. *)

\* newCORSPolicy(list): the list's entries; "*" or an empty list allows all.
newCORSPolicy(entries) ==
    [enabled |-> TRUE,
     wildcard |-> entries = <<>> \/ "*" \in Range(entries),
     allowed |-> Range(entries) \ {"*"}]

\* Faulty variant: every origin is allowed
decideAllowAll(policy, origin) ==
    IF origin = "" THEN "NoOriginHeader" ELSE "Allowed"

\* The decision for a request's Origin header.
decide(policy, origin) ==
    IF origin = "" THEN "NoOriginHeader"
    ELSE IF policy.wildcard THEN "Allowed"
    ELSE IF origin \in policy.allowed THEN "Allowed"
    ELSE "Denied"

\* Faulty variant: the request's Origin is echoed under the wildcard too
echoOrigin(policy, origin) == origin

\* The value echoed in Access-Control-Allow-Origin on an Allowed decision.
allowedOriginValue(policy, origin) == IF policy.wildcard THEN "*" ELSE origin

\* Faulty variant: the preflight answer carries no cache lifetime
preflightNoMaxAge(c) ==
    [c EXCEPT !.st = "done",
              !.resp.status = StatusNoContent,
              !.resp.writes = @ + 1,
              !.resp.allowMethods = "GET, POST, OPTIONS",
              !.resp.allowHeaders = "Content-Type, Authorization"]

\* The immediate answer to a preflight.
preflight(c) ==
    [c EXCEPT !.st = "done",
              !.resp.status = StatusNoContent,
              !.resp.writes = @ + 1,
              !.resp.allowMethods = "GET, POST, OPTIONS",
              !.resp.allowHeaders = "Content-Type, Authorization",
              !.resp.maxAge = "600"]

\* withCORS(policy, next).ServeHTTP
withCORS(policy, c) ==
    LET origin == c.req.origin
        d == decide(policy, origin)
        allowed == [c EXCEPT !.resp.allowOrigin = allowedOriginValue(policy, origin),
                             !.resp.vary = @ \cup {"Origin"}]
    IN IF d = "NoOriginHeader"
       THEN IF c.req.method = "OPTIONS"
            THEN WriteHeader(c, StatusNoContent)
            ELSE newRouter(c)
       ELSE IF d = "Denied" THEN Error(c, "origin not allowed", StatusForbidden)
       ELSE IF c.req.method = "OPTIONS" THEN preflight(allowed)
       ELSE newRouter(allowed)

----------------------------------------------------------------------------
(* Start-up. *)

\* Faulty variant: the two numbers are stored in each other's field
newSessionHandlerSwapped(workflowID, expiresAfterSeconds, rateLimitPerMinute, policy) ==
    [workflowID |-> workflowID,
     expiresAfterSeconds |-> rateLimitPerMinute,
     rateLimitPerMinute |-> expiresAfterSeconds,
     cors |-> policy]

\* newSessionHandler(create, workflowID, expiresAfterSeconds, rateLimitPerMinute)
newSessionHandler(workflowID, expiresAfterSeconds, rateLimitPerMinute, policy) ==
    [workflowID |-> workflowID,
     expiresAfterSeconds |-> expiresAfterSeconds,
     rateLimitPerMinute |-> rateLimitPerMinute,
     cors |-> policy]

\* requireEnv: the process ends when the variable is unset or empty.
requireEnv(v) == v # ""

\* requireEnvInt64 (the value is a text of characters; empty is unset)
requireEnvInt64(v) == IF v = <<>> THEN [ok |-> FALSE, n |-> 0] ELSE ParseInt(v)

\* main of the server-fixed revision up to the construction of the handler:
\* ok is FALSE where main ends in log.Fatal.
startFixed(e) ==
    LET expires == requireEnvInt64(e.CHATKIT_EXPIRES_AFTER_SECONDS)
        rate == requireEnvInt64(e.CHATKIT_RATE_LIMIT_PER_MINUTE)
        ok == /\ requireEnv(e.OPENAI_API_KEY)
              /\ requireEnv(e.CHATKIT_WORKFLOW_ID)
              /\ expires.ok /\ expires.n >= 0
              /\ rate.ok /\ rate.n >= 0
    IN [ok |-> ok,
        handler |-> newSessionHandler(e.CHATKIT_WORKFLOW_ID, expires.n, rate.n,
                                      newCORSPolicy(e.ALLOWED_ORIGINS))]

mainInline ==
    /\ variant = "inline" /\ pc = "boot"
    /\ pc' = "serving"
    /\ UNCHANGED <<variant, env, load, cfg, conn, drain>>

mainClient ==
    /\ variant = "client" /\ pc = "boot"
    /\ pc' = IF env.OPENAI_API_KEY = "" THEN "fatal" ELSE "serving"
    /\ UNCHANGED <<variant, env, load, cfg, conn, drain>>

mainFixed ==
    /\ variant = "fixed" /\ pc = "boot"
    /\ LET s == startFixed(env)
       IN IF s.ok THEN pc' = "serving" /\ cfg' = s.handler
          ELSE pc' = "fatal" /\ cfg' = cfg
    /\ UNCHANGED <<variant, env, load, conn, drain>>

----------------------------------------------------------------------------
(* Serving. *)

\* The process runs and serves the requests it has taken in.
Running == pc \in {"serving", "draining"}

\* The upstream call of c is in flight.
InFlight(c) == c.st = "calling"

\* The timer of c's context is due.
TimerDue(c) ==
    /\ InFlight(c) /\ c.ctx.kind = "timeout" /\ c.ctx.done = ""
    /\ c.clock >= c.ctx.deadline

\* One request enters the server and runs until it is answered or until the
\* handler waits for the upstream call.
ServeHTTP(i) ==
    /\ pc = "serving" /\ conn[i].st = "idle"
    /\ \E r \in Offered :
          LET c == [IdleConn EXCEPT !.req = r, !.reqCtx = "active"]
          IN conn' = [conn EXCEPT ![i] = IF cfg.cors.enabled THEN withCORS(cfg.cors, c)
                                         ELSE newRouter(c)]
    /\ UNCHANGED <<variant, env, load, pc, cfg, drain>>

\* The upstream call returns a session.
createSessionReturns(i) ==
    /\ Running /\ InFlight(conn[i]) /\ conn[i].ctx.done = ""
    /\ \E s \in OfferedSecrets : conn' = [conn EXCEPT ![i] = sessionCreated(conn[i], s)]
    /\ UNCHANGED <<variant, env, load, pc, cfg, drain>>

\* The upstream call returns an error of the upstream API.
createSessionFails(i) ==
    /\ Running /\ InFlight(conn[i]) /\ conn[i].ctx.done = ""
    /\ \E e \in OfferedErrors : conn' = [conn EXCEPT ![i] = sessionFailed(conn[i], e)]
    /\ UNCHANGED <<variant, env, load, pc, cfg, drain>>

\* The upstream call returns the error of its context, which is done.
createSessionAborted(i) ==
    /\ Running /\ InFlight(conn[i]) /\ conn[i].ctx.done # ""
    /\ conn' = [conn EXCEPT ![i] = sessionFailed(conn[i], conn[i].ctx.done)]
    /\ UNCHANGED <<variant, env, load, pc, cfg, drain>>

\* The timer of context.WithTimeout fires.
deadlineExceeded(i) ==
    /\ Running /\ TimerDue(conn[i])
    /\ conn' = [conn EXCEPT ![i].ctx.done = "context deadline exceeded"]
    /\ UNCHANGED <<variant, env, load, pc, cfg, drain>>

\* The client closes its connection while the handler waits: net/http cancels
\* the request's context.
clientDisconnects(i) ==
    /\ Running /\ InFlight(conn[i]) /\ conn[i].reqCtx = "active"
    /\ conn' = [conn EXCEPT ![i] = cancelRequest(conn[i])]
    /\ UNCHANGED <<variant, env, load, pc, cfg, drain>>

\* The response has been sent; the connection takes the next request.
finishRequest(i) ==
    /\ Running /\ conn[i].st = "done"
    /\ conn' = [conn EXCEPT ![i] = IdleConn]
    /\ UNCHANGED <<variant, env, load, pc, cfg, drain>>

\* TickSeconds pass while some upstream call is in flight. No timer that is due
\* is passed over: neither a context's nor the one of Shutdown.
Tick ==
    /\ Running
    /\ \E i \in DOMAIN conn : InFlight(conn[i])
    /\ \A i \in DOMAIN conn :
          InFlight(conn[i]) => ~TimerDue(conn[i]) /\ conn[i].clock + TickSeconds <= MaxClock
    /\ pc = "draining" => drain < serverShutdownTimeout
    /\ conn' = [i \in DOMAIN conn |->
                   IF InFlight(conn[i]) THEN [conn[i] EXCEPT !.clock = @ + TickSeconds]
                   ELSE conn[i]]
    /\ drain' = IF pc = "draining" THEN drain + TickSeconds ELSE drain
    /\ UNCHANGED <<variant, env, load, pc, cfg>>

\* SIGINT or SIGTERM arrives: main calls httpServer.Shutdown, which closes the
\* listener and leaves the requests in progress alone.
shutdown ==
    /\ variant \in {"client", "fixed"} /\ pc = "serving"
    /\ pc' = "draining"
    /\ UNCHANGED <<variant, env, load, cfg, conn, drain>>

\* Shutdown returns, when every connection is idle or when its context's
\* serverShutdownTimeout is over, and main returns: the process ends with
\* whatever is still in progress.
shutdownReturns ==
    /\ pc = "draining"
    /\ \/ \A i \in DOMAIN conn : conn[i].st = "idle"
       \/ drain >= serverShutdownTimeout
    /\ pc' = "stopped"
    /\ drain' = 0
    /\ UNCHANGED <<variant, env, load, cfg, conn>>

----------------------------------------------------------------------------
(* Specifications. *)

Boot(n, l) ==
    /\ variant \in Variants
    /\ env \in IF l = "any" THEN Envs(variant) ELSE PairEnvs(variant)
    /\ load = l
    /\ pc = "boot"
    /\ cfg = NoCfg
    /\ conn = [i \in 1..n |-> IdleConn]
    /\ drain = 0

Init == Boot(1, "any")

InitConc == Boot(MaxInFlight, "pair")

Next ==
    \/ mainInline
    \/ mainClient
    \/ mainFixed
    \/ \E i \in DOMAIN conn : ServeHTTP(i)
    \/ \E i \in DOMAIN conn : createSessionReturns(i)
    \/ \E i \in DOMAIN conn : createSessionFails(i)
    \/ \E i \in DOMAIN conn : createSessionAborted(i)
    \/ \E i \in DOMAIN conn : deadlineExceeded(i)
    \/ \E i \in DOMAIN conn : clientDisconnects(i)
    \/ \E i \in DOMAIN conn : finishRequest(i)
    \/ Tick
    \/ shutdown
    \/ shutdownReturns

\* One connection, every request of Requests.
Spec == Init /\ [][Next]_vars

\* MaxInFlight connections served concurrently, the requests of PairRequests.
SpecConc == InitConc /\ [][Next]_vars

\* Spec where time passes, the timers of the contexts fire, a call whose
\* context is done returns and Shutdown returns. Nothing makes the upstream
\* API answer.
SpecLive ==
    /\ Spec
    /\ WF_vars(Tick)
    /\ WF_vars(deadlineExceeded(1))
    /\ WF_vars(createSessionAborted(1))
    /\ WF_vars(shutdownReturns)

----------------------------------------------------------------------------
(* Properties. *)

Conns == {conn[i] : i \in DOMAIN conn}

\* The request of c has been taken in by the server.
Entered(c) == c.st # "idle"

\* c is a POST that reached one of the two handleSession methods.
InHandleSession(c) ==
    /\ variant \in {"client", "fixed"}
    /\ c.handlerCalls > 0
    /\ c.req.method = "POST"

\* The member k of c's body is missing, null or the empty string.
MissingOrEmpty(c, k) ==
    \/ c.req.body.m[k].t \in {"absent", "null"}
    \/ c.req.body.m[k].t = "str" /\ c.req.body.m[k].s = ""

\* The member k of c's body is 0 or absent.
ZeroOrAbsent(c, k) ==
    \/ c.req.body.m[k].t \in {"absent", "null"}
    \/ c.req.body.m[k].t = "num" /\ c.req.body.m[k].n = 0

\* The member k of c's body is a negative number.
Negative(c, k) == c.req.body.m[k].t = "num" /\ c.req.body.m[k].n < 0

\* c's Origin header is present and matches no entry of the allow-set, and
\* the wildcard is not configured.
OriginRefused(c) ==
    /\ cfg.cors.enabled /\ ~cfg.cors.wildcard
    /\ c.req.origin # "" /\ c.req.origin \notin cfg.cors.allowed

\* c's Origin header is present and allowed by exact match or by wildcard.
OriginAccepted(c) ==
    /\ cfg.cors.enabled /\ c.req.origin # ""
    /\ (cfg.cors.wildcard \/ c.req.origin \in cfg.cors.allowed)

\* C1: with no wildcard configured, a request whose Origin matches no entry of
\* the allow-set is answered 403, whatever its method, and neither the wrapped
\* handler nor the gateway is invoked for it.
C1_RefusedOriginIsForbidden ==
    \A c \in Conns :
        Entered(c) /\ OriginRefused(c)
        => /\ c.st = "done"
           /\ c.resp.status = StatusForbidden
           /\ c.handlerCalls = 0
           /\ c.gatewayCalls = 0

\* C1 witness: a POST with a valid body from an origin that is not on the list
\* (here one that differs from the listed origin by case only) ended with 403.
C1_Witness ==
    \E c \in Conns :
        /\ Entered(c) /\ OriginRefused(c)
        /\ c.req.method = "POST"
        /\ c.req.origin = AppOriginUpper
        /\ c.req.body = Object(Str("u"), Absent, Absent, Absent, Absent)
        /\ c.resp.status = StatusForbidden

\* C2: a POST body that is a JSON object with a member outside the fields of
\* sessionRequest is answered 400 by handleSession and never reaches the
\* gateway, whatever its other members are.
C2_UnknownFieldIsBadRequest ==
    \A c \in Conns :
        /\ InHandleSession(c)
        /\ c.req.body.ok
        /\ Present(c.req.body) \ Fields(variant) # {}
        => /\ c.st = "done"
           /\ c.resp.status = StatusBadRequest
           /\ c.gatewayCalls = 0

\* C2 witness: {"user":"u","workflow_id":"w","foo":1} sent to the revision
\* with client-supplied parameters, where user and workflow_id are all that
\* is required, ended with 400.
C2_Witness ==
    \E c \in Conns :
        /\ variant = "client" /\ InHandleSession(c)
        /\ c.req.body = Object(Str("u"), Str("w"), Absent, Absent, Num(1))
        /\ c.resp.status = StatusBadRequest

\* C3: in the server-fixed revision every gateway invocation carries the
\* user of its own request's body and the workflow ID, expiry and rate limit
\* of the process environment, on every connection and at every moment,
\* whatever else is being or has been served.
C3_FixedParamsComeFromConfig ==
    \A c \in Conns :
        variant = "fixed" /\ c.gatewayCalls > 0
        => c.params = [User |-> c.req.body.m["user"].s,
                       WorkflowID |-> env.CHATKIT_WORKFLOW_ID,
                       Seconds |-> ParseInt(env.CHATKIT_EXPIRES_AFTER_SECONDS).n,
                       Anchor |-> CreatedAt,
                       MaxRequestsPer1Minute |-> ParseInt(env.CHATKIT_RATE_LIMIT_PER_MINUTE).n]

\* C3 witness: two gateway calls are in flight at once for two different
\* users, with an expiry and a rate limit that are not the historical defaults.
C3_Witness ==
    /\ variant = "fixed"
    /\ \E i, j \in DOMAIN conn :
          /\ i # j
          /\ conn[i].st = "calling" /\ conn[j].st = "calling"
          /\ conn[i].params.User = "u" /\ conn[j].params.User = "v"
          /\ conn[i].params.Seconds = 30 /\ conn[j].params.Seconds = 30
          /\ conn[i].params.MaxRequestsPer1Minute = 0

\* C4: when the gateway call returned an error the response is 500 with the
\* fixed body "failed to create session", which does not contain the error's
\* text; the text is in the server log.
C4_UpstreamErrorIsOpaque ==
    \A c \in Conns :
        c.result.kind = "err"
        => /\ c.st = "done"
           /\ c.resp.status = StatusInternalServerError
           /\ c.resp.body = <<"failed to create session", "\n">>
           /\ c.result.err \notin Range(c.resp.body)
           /\ \E l \in DOMAIN c.log : c.result.err \in Range(c.log[l])

\* C4 witness: a gateway call failed with "401 Unauthorized".
C4_Witness ==
    \E c \in Conns :
        /\ c.result.kind = "err" /\ c.result.err = "401 Unauthorized"
        /\ c.resp.status = StatusInternalServerError

\* The text {"client_secret":"secret"}, byte for byte.
SecretLitObject ==
    <<"{", Quote, "client_secret", Quote, ":", Quote,
      "s", "e", "c", "r", "e", "t", Quote, "}">>

\* C5 as stated: when the gateway call succeeded with secret s the response is
\* 200 and its body is exactly the JSON object with the sole member
\* client_secret = s; for s = "secret", exactly {"client_secret":"secret"}.
C5_BodyIsExactlyTheObject ==
    \A c \in Conns :
        c.result.kind = "ok"
        => /\ c.resp.status = StatusOK
           /\ c.resp.body = CompactObject(c.result.secret)
           /\ c.result.secret = SecretLit => c.resp.body = SecretLitObject

\* C5 as amended: when the gateway call succeeded with secret s the response
\* is 200 and its body is the JSON text of the object with the sole member
\* client_secret = s followed by one newline (for s = "secret",
\* {"client_secret":"secret"} and a newline), and it decodes to that object.
C5_BodyIsObjectAndNewline ==
    \A c \in Conns :
        c.result.kind = "ok"
        => /\ c.st = "done"
           /\ c.resp.status = StatusOK
           /\ c.resp.contentType = contentTypeJSON
           /\ DecodeObject(c.resp.body) =
                 [ok |-> TRUE, key |-> <<"client_secret">>, val |-> c.result.secret]
           /\ Len(c.resp.body) > 0 /\ c.resp.body[Len(c.resp.body)] = "\n"
           /\ c.result.secret = SecretLit => c.resp.body = SecretLitObject \o <<"\n">>

\* C5 witness: a gateway call succeeded with the secret "secret".
C5_Witness ==
    \E c \in Conns :
        /\ c.result.kind = "ok" /\ c.result.secret = SecretLit
        /\ c.resp.status = StatusOK

\* C6: an OPTIONS request whose Origin is allowed, by exact match or by
\* wildcard, is answered at once with 204, Access-Control-Allow-Origin,
\* Access-Control-Allow-Methods "GET, POST, OPTIONS", a non-empty
\* Access-Control-Allow-Headers and Access-Control-Max-Age 600, and the
\* wrapped handler is not invoked.
C6_PreflightAnswer ==
    \A c \in Conns :
        Entered(c) /\ OriginAccepted(c) /\ c.req.method = "OPTIONS"
        => /\ c.st = "done"
           /\ c.resp.status = StatusNoContent
           /\ c.resp.allowOrigin # ""
           /\ c.resp.allowMethods = "GET, POST, OPTIONS"
           /\ c.resp.allowHeaders # ""
           /\ c.resp.maxAge = "600"
           /\ c.handlerCalls = 0
           /\ c.gatewayCalls = 0

\* C6 witness: a preflight from the listed origin, no wildcard configured,
\* was answered 204.
C6_Witness ==
    \E c \in Conns :
        /\ Entered(c) /\ OriginAccepted(c) /\ ~cfg.cors.wildcard
        /\ c.req.method = "OPTIONS"
        /\ c.resp.status = StatusNoContent

\* C7: a request with an Origin that the gate lets pass (it is not answered
\* 403) carries Access-Control-Allow-Origin and Vary: Origin; the value is "*"
\* under the wildcard and the request's Origin otherwise, and without the
\* wildcard the gate lets an Origin pass only if it is an entry of the
\* allow-set, compared as a whole string with case.
C7_AllowOriginValue ==
    \A c \in Conns :
        /\ Entered(c) /\ cfg.cors.enabled /\ c.req.origin # ""
        /\ c.resp.status # StatusForbidden
        => /\ c.resp.allowOrigin = (IF cfg.cors.wildcard THEN "*" ELSE c.req.origin)
           /\ "Origin" \in c.resp.vary
           /\ ~cfg.cors.wildcard => c.req.origin \in cfg.cors.allowed

\* C7 witness: under the wildcard a POST from the listed origin got "*".
C7_Witness ==
    \E c \in Conns :
        /\ Entered(c) /\ cfg.cors.enabled /\ cfg.cors.wildcard
        /\ c.req.origin = AppOrigin /\ c.req.method = "POST"
        /\ c.resp.allowOrigin = "*" /\ "Origin" \in c.resp.vary

\* C8 as stated: in every gateway invocation an expiry or rate limit of 0 (or
\* absent) has been replaced by the default (1200, 10), so the gateway never
\* receives a literal zero for either, and a positive client value is passed
\* through unchanged.
C8_GatewayNeverReceivesZero ==
    \A c \in Conns :
        c.gatewayCalls > 0
        => /\ c.params.Seconds # 0
           /\ c.params.MaxRequestsPer1Minute # 0

\* C8 as amended: in the revisions with client-supplied parameters every
\* gateway invocation carries 1200 for an expiry that is 0 or absent and 10
\* for a rate limit that is 0 or absent, never zero, and a positive client
\* value unchanged; in the server-fixed revision it carries the configured
\* values as they are, zero included.
C8_ZeroResolvesToDefault ==
    \A c \in Conns :
        c.gatewayCalls > 0
        => IF variant \in {"inline", "client"}
           THEN /\ c.params.Seconds =
                      (IF ZeroOrAbsent(c, "expires_after_seconds") THEN 1200
                       ELSE c.req.body.m["expires_after_seconds"].n)
                /\ c.params.MaxRequestsPer1Minute =
                      (IF ZeroOrAbsent(c, "rate_limit_per_minute") THEN 10
                       ELSE c.req.body.m["rate_limit_per_minute"].n)
                /\ c.params.Seconds > 0
                /\ c.params.MaxRequestsPer1Minute > 0
           ELSE /\ c.params.Seconds = cfg.expiresAfterSeconds
                /\ c.params.MaxRequestsPer1Minute = cfg.rateLimitPerMinute
                /\ Present(c.req.body) = {"user"}

\* C8 witness: {"user":"u","workflow_id":"w","expires_after_seconds":0,
\* "rate_limit_per_minute":5} reached the gateway as (1200, 5).
C8_Witness ==
    \E c \in Conns :
        /\ variant = "client" /\ c.gatewayCalls > 0
        /\ c.req.body = Object(Str("u"), Str("w"), Num(0), Num(5), Absent)
        /\ c.params.Seconds = 1200
        /\ c.params.MaxRequestsPer1Minute = 5

\* C9: in every gateway invocation the expiry and the rate limit are
\* non-negative; a POST whose body has a negative expires_after_seconds or
\* rate_limit_per_minute is answered 400 without a gateway call, whatever its
\* other members are; and a server that serves has no negative configured
\* value.
C9_NoNegativeReachesGateway ==
    /\ \A c \in Conns :
          c.gatewayCalls > 0
          => c.params.Seconds >= 0 /\ c.params.MaxRequestsPer1Minute >= 0
    /\ \A c \in Conns :
          /\ c.handlerCalls > 0 /\ c.req.method = "POST" /\ c.req.body.ok
          /\ (Negative(c, "expires_after_seconds") \/ Negative(c, "rate_limit_per_minute"))
          => /\ c.st = "done"
             /\ c.resp.status = StatusBadRequest
             /\ c.gatewayCalls = 0
    /\ pc = "serving" => cfg.expiresAfterSeconds >= 0 /\ cfg.rateLimitPerMinute >= 0
    /\ /\ variant = "fixed"
       /\ \/ ParseInt(env.CHATKIT_EXPIRES_AFTER_SECONDS).n < 0
          \/ ParseInt(env.CHATKIT_RATE_LIMIT_PER_MINUTE).n < 0
       => pc # "serving"

\* C9 witness: {"user":"u","workflow_id":"w","rate_limit_per_minute":-1} sent
\* to the revision with client-supplied parameters ended with 400.
C9_Witness ==
    \E c \in Conns :
        /\ variant = "client" /\ c.handlerCalls > 0
        /\ c.req.body = Object(Str("u"), Str("w"), Absent, Num(-1), Absent)
        /\ c.resp.status = StatusBadRequest
        /\ c.gatewayCalls = 0

\* C10: a POST body that is a JSON object whose user is missing or empty is
\* answered 400 by the session handler without a gateway call; in the revisions
\* with client-supplied parameters the same holds when workflow_id is missing
\* or empty.
C10_RequiredFields ==
    \A c \in Conns :
        /\ c.handlerCalls > 0 /\ c.req.method = "POST" /\ c.req.body.ok
        /\ \/ MissingOrEmpty(c, "user")
           \/ variant \in {"inline", "client"} /\ MissingOrEmpty(c, "workflow_id")
        => /\ c.st = "done"
           /\ c.resp.status = StatusBadRequest
           /\ c.gatewayCalls = 0

\* C10 witness: {} was decoded by the server-fixed handleSession, which
\* answered 400 "user is required".
C10_Witness ==
    \E c \in Conns :
        /\ variant = "fixed" /\ InHandleSession(c)
        /\ Present(c.req.body) = {} /\ c.req.body.ok
        /\ c.resp.status = StatusBadRequest
        /\ c.resp.body = <<"user is required", "\n">>

\* C11: every POST whose body is longer than 4096 bytes that reaches one of the
\* two handleSession methods is answered 400 without a gateway call, whatever
\* its first 4096 bytes hold.
C11_OversizedBodyIsRejected ==
    \A c \in Conns :
        InHandleSession(c) /\ c.req.body.len > maxRequestBodyBytes
        => /\ c.st = "done"
           /\ c.resp.status = StatusBadRequest
           /\ c.gatewayCalls = 0

\* C12 as stated: every request whose method is not POST ends at the method
\* check, with 405, an empty body and no gateway call.
C12_NonPostIsMethodNotAllowed ==
    \A c \in Conns :
        Entered(c) /\ c.req.method # "POST"
        => /\ c.st = "done"
           /\ c.resp.status = StatusMethodNotAllowed
           /\ c.resp.body = <<>>
           /\ c.gatewayCalls = 0

\* C12: the origin gate, where it is mounted, runs before the session handler:
\* a refused Origin ends the request with 403 and any other OPTIONS request
\* with 204, the handler not having run. The handler then checks the method,
\* decodes and validates the body, calls the gateway and responds, each stage
\* only after the earlier ones passed: a request other than POST that reaches
\* the handler ends with 405, an empty body, no parameters built and no
\* gateway call; the gateway is called only for a POST whose body decoded with
\* a user; and a result exists only after a gateway call.
C12_StagesInOrder ==
    \A c \in Conns :
        Entered(c)
        => /\ c.handlerCalls = 0
              => /\ cfg.cors.enabled
                 /\ c.st = "done"
                 /\ c.gatewayCalls = 0
                 /\ IF OriginRefused(c)
                    THEN c.resp.status = StatusForbidden
                    ELSE c.req.method = "OPTIONS" /\ c.resp.status = StatusNoContent
           /\ c.handlerCalls > 0
              => /\ c.handlerCalls = 1
                 /\ ~OriginRefused(c)
                 /\ cfg.cors.enabled => c.req.method # "OPTIONS"
           /\ c.handlerCalls > 0 /\ c.req.method # "POST"
              => /\ c.st = "done"
                 /\ c.resp.status = StatusMethodNotAllowed
                 /\ c.resp.body = <<>>
                 /\ c.params = NoParams
                 /\ c.gatewayCalls = 0
           /\ c.gatewayCalls > 0
              => /\ c.handlerCalls = 1
                 /\ c.req.method = "POST"
                 /\ c.req.body.ok
                 /\ ~MissingOrEmpty(c, "user")
                 /\ c.params.User = c.req.body.m["user"].s
           /\ c.result.kind # "none" => c.gatewayCalls > 0 /\ c.st = "done"

\* C12 witness: behind the origin gate, a GET from the allowed origin whose
\* body is not JSON reached handleSession and ended with 405 and an empty body.
C12_Witness ==
    \E c \in Conns :
        /\ variant = "fixed" /\ OriginAccepted(c)
        /\ c.req.method = "GET" /\ c.req.body = Malformed
        /\ c.handlerCalls = 1
        /\ c.resp.status = StatusMethodNotAllowed
        /\ c.resp.body = <<>>

\* The first revision's answer to a request when OPENAI_API_KEY is unset.
MissingKeyAnswer(c) ==
    /\ variant = "inline" /\ env.OPENAI_API_KEY = ""
    /\ c.resp.body = <<"missing OPENAI_API_KEY", "\n">>

ListedStatuses ==
    {StatusMethodNotAllowed, StatusForbidden, StatusBadRequest,
     StatusInternalServerError, StatusOK}

\* Until a request is answered nothing is written; once it is answered exactly
\* one status has been written, and it is one of S.
OneStatusOf(c, S) ==
    /\ c.resp.writes <= 1
    /\ c.st = "done" <=> c.resp.writes = 1
    /\ c.resp.writes = 0 => c.resp.status = 0
    /\ c.resp.writes = 1 => c.resp.status \in S

\* C14 as stated: every request is answered with exactly one status, one of
\* 405, 403, 400, 500 and 200.
C14_OneListedStatus ==
    \A c \in Conns : Entered(c) => OneStatusOf(c, ListedStatuses)

\* C14: every request is answered with exactly one status, one of 405, 403,
\* 400, 500, 200 and 204, the last for an OPTIONS request answered by the
\* origin gate only; and in the revisions that call the gateway under a
\* deadline a request whose gateway call is in flight is answered in the end,
\* unless the process ends first.
C14_OneTerminalState ==
    /\ [](\A c \in Conns :
            Entered(c)
            => /\ OneStatusOf(c, ListedStatuses \cup {StatusNoContent})
               /\ c.resp.status = StatusNoContent
                  => cfg.cors.enabled /\ c.req.method = "OPTIONS" /\ c.handlerCalls = 0)
    /\ (variant # "inline" /\ conn[1].st = "calling")
          ~> (conn[1].st = "done" \/ pc = "stopped")

\* C14 witness: the upstream call of a request that passed the origin gate
\* stayed unanswered until the deadline, and the request ended with 500.
C14_Witness ==
    \E c \in Conns :
        /\ variant = "fixed" /\ OriginAccepted(c)
        /\ c.st = "done" /\ c.resp.writes = 1
        /\ c.resp.status = StatusInternalServerError
        /\ c.ctx.done = "context deadline exceeded"

\* The response of c was written before the connection's write deadline, which
\* the server sets writeTimeout after it has read the request's headers.
WrittenInsideBudget(c) == c.st = "done" /\ c.clock < writeTimeout

\* C15 as stated: in the handleSession revisions every gateway call runs under
\* a deadline of 15 seconds; when the gateway hangs the call is abandoned at
\* that deadline, which lies strictly inside the server's budget for the
\* request, and the request ends with a 500 written inside that budget.
C15_DeadlineInsideBudget ==
    \A c \in Conns :
        InHandleSession(c) /\ c.gatewayCalls > 0
        => /\ c.ctx.kind = "timeout"
           /\ c.ctx.deadline = openaiRequestTimeout
           /\ InFlight(c) /\ c.clock > c.ctx.deadline => c.ctx.done # ""
           /\ c.result.err = "context deadline exceeded" /\ c.ctx.done = c.result.err
              => /\ c.ctx.deadline < writeTimeout
                 /\ c.resp.status = StatusInternalServerError
                 /\ WrittenInsideBudget(c)

====
